---- MODULE Spec2Model ----
(***************************************************************************)
(* A model of the fdt_parse crate (src/src/lib.rs): Fdt::new and the       *)
(* stages it calls (_parse_header, _parse_mem_reserve, _parse_dt_struct,   *)
(* _parse_dt_strings), get_reserved_memory_regions and get_string.         *)
(*                                                                         *)
(* Memory is a sequence of bytes, mem, starting at the address handed to   *)
(* Fdt::new; offset i of the blob is mem[i + 1].  An integer of the        *)
(* program (u32, u64) is a word: the sequence of its bytes, most           *)
(* significant first, so that every 32 and 64 bit value is representable   *)
(* and a byte swap really is a reversal.  The host's byte order            *)
(* (big_endian) and the build's overflow checks (overflow_checks, on in a  *)
(* debug build, off in a release build) are chosen in Init.                *)
(*                                                                         *)
(* The blobs of Init are mapped memory whose reservation table is 8-byte   *)
(* aligned and whose strings region lies inside mem; the one read the      *)
(* model lets leave mem is the reservation scan after a wrapped length.    *)
(***************************************************************************)
EXTENDS Integers, Sequences, FiniteSets

\* ------------------------------------------------------------- bounds
\* Entries of the reservation tables Init enumerates.
MaxEntries == 3
\* Bytes of the strings regions Init enumerates.
MaxStrLen == 3

\* ---------------------------------------------------------- constants
\* size_of::<FdtHeader>(): ten u32 fields.
HeaderSize == 40
\* size_of::<FdtReserveEntry>(): two u64 fields.
EntrySize == 16
\* The null address, 0 as *const u8.
NULL == 0
\* The address of a blob that is there.
BlobAddr == 4096

VARIABLES
    mem,             \* the bytes at fdt_addr, fdt_addr + 1, ...
    big_endian,      \* cfg!(target_endian = "big")
    overflow_checks, \* cfg!(overflow_checks): a debug build
    fdt_addr,        \* the argument of Fdt::new
    pc,              \* where the program is
    result,          \* what Fdt::new returned: "Ok", an FdtError, or "panic"
    hdr,             \* Fdt::new's local hdr: <<>> or <<FdtHeader>>
    mem_reserve,     \* its local mem_reserve: <<>> or <<[off, len]>>
    scan_len,        \* the enumerate() index of _parse_mem_reserve's loop
    dt_struct,       \* its local dt_struct: <<>> or <<[off, len]>>
    dt_strings,      \* its local dt_strings: <<>> or <<[off, len]>>
    fdt,             \* the handle returned: <<>> or <<Fdt>>
    hdr_reads,       \* offsets of the bytes _parse_header read
    rsv_reads,       \* offsets of the bytes _parse_mem_reserve's scan read
    regions,         \* <<>> or <<what get_reserved_memory_regions yielded>>
    str_off,         \* the offset of the last get_string call
    str_ret,         \* <<>> or <<what the last get_string call did>>
    str_reads        \* offsets of the bytes the last get_string call read

vars == <<mem, big_endian, overflow_checks, fdt_addr, pc, result, hdr,
          mem_reserve, scan_len, dt_struct, dt_strings, fdt, hdr_reads,
          rsv_reads, regions, str_off, str_ret, str_reads>>

\* ------------------------------------------------------ bytes and words
Reverse(s) == [i \in 1..Len(s) |-> s[Len(s) + 1 - i]]

\* The byte at offset i of the blob.
ByteAt(m, i) == m[i + 1]

\* The n bytes at offsets off .. off + n - 1, in memory order.
BytesAt(m, off, n) == [i \in 1..n |-> ByteAt(m, off + i - 1)]

\* A read of an integer field through a reference: the host's byte order
\* decides which byte of memory is the most significant.
NativeLoad(bytes) == IF big_endian THEN bytes ELSE Reverse(bytes)

\* u32::to_be and u64::to_be: the identity on a big-endian host, swap_bytes
\* on a little-endian one.
ToBe(w) == IF big_endian THEN w ELSE Reverse(w)

\* The number a 4-byte word stands for (words below 2^31 only).
Val(w) == ((w[1] * 256 + w[2]) * 256 + w[3]) * 256 + w[4]

\* The big-endian 4-byte word of a number below 2^31.
Be32(n) == <<(n \div 16777216) % 256, (n \div 65536) % 256,
             (n \div 256) % 256, n % 256>>

IsZero(w) == \A i \in 1..Len(w) : w[i] = 0

FDT_HDR_MAGIC == <<208, 13, 254, 237>>


\* ------------------------------------------------------- _parse_header
\* The byte offset of each field of the #[repr(C)] FdtHeader.
FieldOffset == [magic |-> 0, totalsize |-> 4, off_dt_struct |-> 8,
                off_dt_strings |-> 12, off_mem_rsvmap |-> 16, version |-> 20,
                last_comp_version |-> 24, boot_cpuid_phys |-> 28,
                size_dt_strings |-> 32, size_dt_struct |-> 36]

FieldNames == DOMAIN FieldOffset

\* The header as the reference fdt_hdr sees it: every field read natively.
RawHeader(m) == [f \in FieldNames |-> NativeLoad(BytesAt(m, FieldOffset[f], 4))]

\* ConvertHeader with the to_be() of one field, version, forgotten.
ConvertHeader_VersionRaw(raw) ==
    [magic             |-> ToBe(raw.magic),
     totalsize         |-> ToBe(raw.totalsize),
     off_dt_struct     |-> ToBe(raw.off_dt_struct),
     off_dt_strings    |-> ToBe(raw.off_dt_strings),
     off_mem_rsvmap    |-> ToBe(raw.off_mem_rsvmap),
     version           |-> raw.version,
     last_comp_version |-> ToBe(raw.last_comp_version),
     boot_cpuid_phys   |-> ToBe(raw.boot_cpuid_phys),
     size_dt_strings   |-> ToBe(raw.size_dt_strings),
     size_dt_struct    |-> ToBe(raw.size_dt_struct)]

\* The FdtHeader literal of _parse_header: every field through to_be().
ConvertHeader(raw) ==
    [magic             |-> ToBe(raw.magic),
     totalsize         |-> ToBe(raw.totalsize),
     off_dt_struct     |-> ToBe(raw.off_dt_struct),
     off_dt_strings    |-> ToBe(raw.off_dt_strings),
     off_mem_rsvmap    |-> ToBe(raw.off_mem_rsvmap),
     version           |-> ToBe(raw.version),
     last_comp_version |-> ToBe(raw.last_comp_version),
     boot_cpuid_phys   |-> ToBe(raw.boot_cpuid_phys),
     size_dt_strings   |-> ToBe(raw.size_dt_strings),
     size_dt_struct    |-> ToBe(raw.size_dt_struct)]

\* MagicMatches comparing the field as read, without to_be().
MagicMatches_NoSwap(raw_magic) == raw_magic = FDT_HDR_MAGIC

\* The arm FDT_HDR_MAGIC of the match on fdt_hdr.magic.to_be().
MagicMatches(raw_magic) == ToBe(raw_magic) = FDT_HDR_MAGIC

\* The length of the slice _parse_header makes of the header.
HeaderSliceLen == 1

\* _parse_header: the tag of its result, the header of an Ok, and the
\* offsets of the bytes it read.
ParseHeader(m) ==
    IF HeaderSliceLen > 0
    THEN IF MagicMatches(RawHeader(m).magic)
         THEN [tag |-> "Ok", hdr |-> <<ConvertHeader(RawHeader(m))>>,
               reads |-> 0..(HeaderSize - 1)]
         ELSE [tag |-> "InvalidMagic", hdr |-> <<>>, reads |-> 0..3]
    ELSE [tag |-> "NotFound", hdr |-> <<>>, reads |-> {}]

\* ---------------------------------------------------- _parse_mem_reserve
\* Whether the u32 subtraction off_dt_struct - off_mem_rsvmap overflows.
SubOverflows(h) == Val(h.off_dt_struct) < Val(h.off_mem_rsvmap)

\* RsvCount with the division rounding up: an entry that only begins before
\* off_dt_struct is counted.
RsvCount_RoundUp(h) ==
    IF SubOverflows(h)
    THEN 268435456
         - ((Val(h.off_mem_rsvmap) - Val(h.off_dt_struct)) \div EntrySize)
    ELSE (Val(h.off_dt_struct) - Val(h.off_mem_rsvmap) + EntrySize - 1)
         \div EntrySize

\* The length of the first slice: (off_dt_struct - off_mem_rsvmap) / 16 in
\* u32.  When the subtraction wraps (overflow checks off) the difference is
\* 2^32 - d with d = off_mem_rsvmap - off_dt_struct, and
\* (2^32 - d) / 16 = 2^28 - ceil(d / 16).
RsvCount(h) ==
    IF SubOverflows(h)
    THEN 268435456
         - ((Val(h.off_mem_rsvmap) - Val(h.off_dt_struct) + EntrySize - 1)
            \div EntrySize)
    ELSE (Val(h.off_dt_struct) - Val(h.off_mem_rsvmap)) \div EntrySize

\* Entry i of the slice at base, as the reference sees it.
EntryAt(m, base, i) ==
    [address |-> NativeLoad(BytesAt(m, base + EntrySize * i, 8)),
     size    |-> NativeLoad(BytesAt(m, base + EntrySize * i + 8, 8))]

\* Whether all 16 bytes of entry i lie in the blob's memory.
EntryMapped(m, base, i) == base + EntrySize * i + EntrySize <= Len(m)

\* IsSentinel testing the address alone.
IsSentinel_AddressOnly(e) == IsZero(e.address)

\* The test of the scan: entry.address == 0 && entry.size == 0.
IsSentinel(e) == IsZero(e.address) /\ IsZero(e.size)

\* The bytes the test reads: size only when address is zero (&&).
EntryReads(m, base, i) ==
    LET a == base + EntrySize * i
    IN  IF IsZero(EntryAt(m, base, i).address)
        THEN a..(a + EntrySize - 1)
        ELSE a..(a + 7)

\* ------------------------------------------ get_reserved_memory_regions
\* Regions yielding the fields as stored, without to_be().
Regions_NoSwap(m, f) ==
    [i \in 1..f.reserved_memory.len |->
        LET e == EntryAt(m, f.reserved_memory.off, i - 1)
        IN  <<e.address, e.size>>]

\* The pairs the iterator yields: (x.address.to_be(), x.size.to_be()).
Regions(m, f) ==
    [i \in 1..f.reserved_memory.len |->
        LET e == EntryAt(m, f.reserved_memory.off, i - 1)
        IN  <<ToBe(e.address), ToBe(e.size)>>]

\* ------------------------------------------------------------ get_string
\* OffsetInRange with <= for <.
OffsetInRange_Inclusive(offset, size) == offset <= size

\* The guard of get_string: offset < self.header.size_dt_strings as usize.
OffsetInRange(offset, size) == offset < size

\* &view[from..to]: the sub-slice of a byte view.
SubSlice(view, from, to) == [off |-> view.off + from, len |-> to - from]

\* StringSlice starting at the region's start instead of at offset.
StringSlice_FromStart(view, offset, size) == SubSlice(view, 0, size)

\* The slice get_string scans: &self.dt_strings[offset..size_dt_strings].
StringSlice(view, offset, size) == SubSlice(view, offset, size)

\* The bytes of a view.
ViewBytes(m, view) == BytesAt(m, view.off, view.len)

\* The 1-based position of the first zero byte of b, 0 when it has none.
NulPos(b) ==
    IF \E i \in 1..Len(b) : b[i] = 0
    THEN CHOOSE i \in 1..Len(b) : b[i] = 0 /\ \A j \in 1..(i - 1) : b[j] # 0
    ELSE 0

\* FromBytesUntilNul taking a slice without a zero byte whole.
FromBytesUntilNul_WholeSlice(b) ==
    IF NulPos(b) = 0 THEN <<b>> ELSE <<SubSeq(b, 1, NulPos(b) - 1)>>

\* CStr::from_bytes_until_nul: <<>> for Err (no zero byte in the slice),
\* <<bytes>> for the C string up to the first zero byte, the zero left out.
FromBytesUntilNul(b) ==
    IF NulPos(b) = 0 THEN <<>> ELSE <<SubSeq(b, 1, NulPos(b) - 1)>>

\* A UTF-8 continuation byte.
IsCont(c) == c \in 128..191

\* Whether b is well-formed UTF-8 (what core::str::from_utf8 accepts).
RECURSIVE Utf8Valid(_)
Utf8Valid(b) ==
    LET n == Len(b)
        c == b[1]
        Rest(k) == Utf8Valid(SubSeq(b, k + 1, n))
    IN  IF n = 0 THEN TRUE
        ELSE IF c < 128 THEN Rest(1)
        ELSE IF c \in 194..223 THEN n >= 2 /\ IsCont(b[2]) /\ Rest(2)
        ELSE IF c = 224
        THEN n >= 3 /\ b[2] \in 160..191 /\ IsCont(b[3]) /\ Rest(3)
        ELSE IF c \in (225..236) \cup {238, 239}
        THEN n >= 3 /\ IsCont(b[2]) /\ IsCont(b[3]) /\ Rest(3)
        ELSE IF c = 237
        THEN n >= 3 /\ b[2] \in 128..159 /\ IsCont(b[3]) /\ Rest(3)
        ELSE IF c = 240
        THEN n >= 4 /\ b[2] \in 144..191 /\ IsCont(b[3]) /\ IsCont(b[4])
             /\ Rest(4)
        ELSE IF c \in 241..243
        THEN n >= 4 /\ IsCont(b[2]) /\ IsCont(b[3]) /\ IsCont(b[4]) /\ Rest(4)
        ELSE IF c = 244
        THEN n >= 4 /\ b[2] \in 128..143 /\ IsCont(b[3]) /\ IsCont(b[4])
             /\ Rest(4)
        ELSE FALSE

\* CStr::to_str: <<>> for Err (not UTF-8), <<bytes>> for the &str.
ToStr(b) == IF Utf8Valid(b) THEN <<b>> ELSE <<>>

\* get_string: kind is "None", "Some" (with the string's bytes) or "panic"
\* (an unwrap() of an Err); reads are the offsets of the bytes it looked at.
GetStringResult(m, f, offset) ==
    LET size == Val(f.header.size_dt_strings)
    IN  IF OffsetInRange(offset, size)
        THEN LET sl   == StringSlice(f.dt_strings, offset, size)
                 cstr == FromBytesUntilNul(ViewBytes(m, sl))
                 last == IF Len(cstr) = 0 THEN sl.len
                         ELSE Len(cstr[1]) + 1
                 rd   == sl.off..(sl.off + last - 1)
             IN  IF Len(cstr) = 0
                 THEN [kind |-> "panic", bytes |-> <<>>, reads |-> rd]
                 ELSE IF Len(ToStr(cstr[1])) = 0
                 THEN [kind |-> "panic", bytes |-> <<>>, reads |-> rd]
                 ELSE [kind |-> "Some", bytes |-> ToStr(cstr[1])[1],
                       reads |-> rd]
        ELSE [kind |-> "None", bytes |-> <<>>, reads |-> {}]

\* ------------------------------------------------------------ the blobs
RECURSIVE Concat(_)
Concat(ss) == IF Len(ss) = 0 THEN <<>> ELSE Head(ss) \o Concat(Tail(ss))

\* The 40 on-wire bytes of a header: four raw words and, for the fields the
\* program computes with, numbers stored big-endian.
MkHeader(mg, ts, ostruct, ostrings, orsvmap, ver, lcv, cpu, sstrings, sstruct) ==
    mg \o ts \o Be32(ostruct) \o Be32(ostrings) \o Be32(orsvmap) \o ver \o lcv
    \o cpu \o Be32(sstrings) \o Be32(sstruct)

Zero8 == <<0, 0, 0, 0, 0, 0, 0, 0>>
Addr8 == <<0, 0, 0, 0, 0, 0, 1, 0>>
Size8 == <<0, 0, 0, 0, 0, 0, 6, 0>>

\* On-wire reservation entries: the sentinel, a region, and the two entries
\* with only one field zero.
EntryKinds == {Zero8 \o Zero8, Addr8 \o Size8, Zero8 \o Size8, Addr8 \o Zero8}

\* An 8-byte structure block: FDT_NOP, FDT_END.
StructBytes == <<0, 0, 0, 4, 0, 0, 0, 9>>

\* Bytes of strings: NUL, 'a', and the two bytes of U+00E9, each of which
\* alone is not UTF-8.
StrBytes == {0, 97, 195, 169}

\* Raw words for the fields the program only copies.
RawWords == {<<0, 0, 0, 17>>, <<129, 2, 3, 4>>}

\* Magic words: the magic, the magic byte-swapped, zero, and a near miss.
MagicWords == {FDT_HDR_MAGIC, Reverse(FDT_HDR_MAGIC), <<0, 0, 0, 0>>,
               <<208, 13, 254, 236>>}

\* Blobs that vary the reservation table and the two offsets around it
\* (off_dt_struct below off_mem_rsvmap included).
RsvBlobs ==
    LET tableEnd == HeaderSize + EntrySize * MaxEntries
    IN  { MkHeader(FDT_HDR_MAGIC, Be32(tableEnd + 10), HeaderSize + 8 * j,
                   tableEnd + 8, rsv, Be32(17), Be32(16), Be32(0), 2, 8)
          \o Concat(es) \o StructBytes \o <<97, 0>> :
            es \in [1..MaxEntries -> EntryKinds],
            j \in 0..(2 * MaxEntries),
            rsv \in {HeaderSize, HeaderSize + EntrySize} }

\* Blobs that vary the strings region and its declared size; one zero byte
\* of memory follows the region.
StrBlobs ==
    { MkHeader(FDT_HDR_MAGIC, Be32(80 + MaxStrLen), 72, 80, 40, Be32(17),
               Be32(16), Be32(0), n, 8)
      \o Addr8 \o Size8 \o Zero8 \o Zero8 \o StructBytes \o s \o <<0>> :
        s \in [1..MaxStrLen -> StrBytes], n \in 0..MaxStrLen }

\* Blobs that vary the header: the magic and every field not varied above.
HdrBlobs ==
    { MkHeader(mg, ts, 72, ostr, 40, ver, lcv, cpu, 2, sstruct)
      \o Addr8 \o Size8 \o Zero8 \o Zero8 \o StructBytes \o <<97, 0, 0>> :
        mg \in MagicWords, ts \in RawWords, ver \in RawWords,
        lcv \in RawWords, cpu \in RawWords, ostr \in {80, 81},
        sstruct \in {0, 8} }

\* The end-to-end blob: four regions and the sentinel at 40, an 8-byte
\* structure block at 120, a 10-byte strings block at 128 holding
\* "foo\0bar\0" and two more bytes.
E2EBlobs ==
    { MkHeader(FDT_HDR_MAGIC, Be32(138), 120, 128, 40, Be32(17), Be32(16),
               Be32(0), 10, 8)
      \o <<0, 0, 0, 0, 0, 0, 1, 0>> \o <<0, 0, 0, 0, 0, 0, 6, 0>>
      \o <<0, 0, 0, 0, 0, 0, 2, 0>> \o <<0, 0, 0, 0, 0, 0, 7, 0>>
      \o <<0, 0, 0, 0, 0, 0, 3, 0>> \o <<0, 0, 0, 0, 0, 0, 8, 0>>
      \o <<0, 0, 0, 0, 0, 0, 4, 0>> \o <<0, 0, 0, 0, 0, 0, 9, 0>>
      \o Zero8 \o Zero8 \o StructBytes
      \o <<102, 111, 111, 0, 98, 97, 114, 0>> \o <<p, q>> :
        p \in {0, 97}, q \in {0, 97} }

Blobs == RsvBlobs \cup StrBlobs \cup HdrBlobs \cup E2EBlobs

\* --------------------------------------------------------------- Init
Init ==
    /\ mem \in Blobs
    /\ big_endian \in BOOLEAN
    /\ overflow_checks \in BOOLEAN
    /\ fdt_addr \in {NULL, BlobAddr}
    /\ pc = "new"
    /\ result = "none"
    /\ hdr = <<>>
    /\ mem_reserve = <<>>
    /\ scan_len = 0
    /\ dt_struct = <<>>
    /\ dt_strings = <<>>
    /\ fdt = <<>>
    /\ hdr_reads = {}
    /\ rsv_reads = {}
    /\ regions = <<>>
    /\ str_off = 0
    /\ str_ret = <<>>
    /\ str_reads = {}

\* ------------------------------------------------------------ Fdt::new
\* NullPtrCheck left out.
NullPtrCheck_Never(addr) == FALSE

\* if fdt_addr == 0 as *const u8
NullPtrCheck(addr) == addr = NULL

\* The null check of Fdt::new.
NewNullCheck ==
    /\ pc = "new"
    /\ IF NullPtrCheck(fdt_addr)
       THEN result' = "InvalidPointer" /\ pc' = "returned"
       ELSE result' = result /\ pc' = "parse_header"
    /\ UNCHANGED <<mem, big_endian, overflow_checks, fdt_addr, hdr,
                   mem_reserve, scan_len, dt_struct, dt_strings, fdt,
                   hdr_reads, rsv_reads, regions, str_off, str_ret, str_reads>>

\* let hdr = Fdt::_parse_header(fdt_addr)?;
NewParseHeader ==
    /\ pc = "parse_header"
    /\ LET r == ParseHeader(mem)
       IN  /\ hdr_reads' = r.reads
           /\ hdr' = r.hdr
           /\ IF r.tag = "Ok"
              THEN result' = result /\ pc' = "parse_mem_reserve"
              ELSE result' = r.tag /\ pc' = "returned"
    /\ UNCHANGED <<mem, big_endian, overflow_checks, fdt_addr, mem_reserve,
                   scan_len, dt_struct, dt_strings, fdt, rsv_reads, regions,
                   str_off, str_ret, str_reads>>

\* The first from_raw_parts of _parse_mem_reserve: the subtraction panics
\* when it overflows and the build checks overflow, and wraps otherwise.
MemReserveSlice ==
    /\ pc = "parse_mem_reserve"
    /\ IF SubOverflows(hdr[1]) /\ overflow_checks
       THEN /\ result' = "panic"
            /\ pc' = "aborted"
            /\ UNCHANGED <<mem_reserve, scan_len>>
       ELSE /\ mem_reserve' = <<[off |-> Val(hdr[1].off_mem_rsvmap),
                                 len |-> RsvCount(hdr[1])]>>
            /\ scan_len' = 0
            /\ pc' = "scan"
            /\ result' = result
    /\ UNCHANGED <<mem, big_endian, overflow_checks, fdt_addr, hdr,
                   dt_struct, dt_strings, fdt, hdr_reads, rsv_reads, regions,
                   str_off, str_ret, str_reads>>

\* One iteration of the loop over mem_reserve.iter().enumerate(), on an
\* entry that lies in the blob's memory.
ScanEntry ==
    /\ pc = "scan"
    /\ scan_len < mem_reserve[1].len
    /\ EntryMapped(mem, mem_reserve[1].off, scan_len)
    /\ rsv_reads' = rsv_reads \cup EntryReads(mem, mem_reserve[1].off, scan_len)
    /\ IF IsSentinel(EntryAt(mem, mem_reserve[1].off, scan_len))
       THEN /\ mem_reserve' = <<[off |-> mem_reserve[1].off,
                                 len |-> scan_len]>>
            /\ pc' = "parse_dt_struct"
            /\ scan_len' = scan_len
       ELSE /\ scan_len' = scan_len + 1
            /\ UNCHANGED <<mem_reserve, pc>>
    /\ UNCHANGED <<mem, big_endian, overflow_checks, fdt_addr, result, hdr,
                   dt_struct, dt_strings, fdt, hdr_reads, regions, str_off,
                   str_ret, str_reads>>

\* One iteration on an entry past the end of the blob's memory (reached
\* only with a wrapped length): the read is out of bounds, and either
\* faults or finds whatever is there; bytes that are not all zero only put
\* off the same two ends.
ScanUnmapped ==
    /\ pc = "scan"
    /\ scan_len < mem_reserve[1].len
    /\ ~EntryMapped(mem, mem_reserve[1].off, scan_len)
    /\ \/ /\ result' = "fault"
          /\ pc' = "aborted"
          /\ UNCHANGED mem_reserve
       \/ /\ mem_reserve' = <<[off |-> mem_reserve[1].off, len |-> scan_len]>>
          /\ pc' = "parse_dt_struct"
          /\ result' = result
    /\ UNCHANGED <<mem, big_endian, overflow_checks, fdt_addr, hdr, scan_len,
                   dt_struct, dt_strings, fdt, hdr_reads, rsv_reads, regions,
                   str_off, str_ret, str_reads>>

\* The loop ends with the iterator: no sentinel among the entries.
ScanEnd ==
    /\ pc = "scan"
    /\ scan_len >= mem_reserve[1].len
    /\ pc' = "parse_dt_struct"
    /\ UNCHANGED <<mem, big_endian, overflow_checks, fdt_addr, result, hdr,
                   mem_reserve, scan_len, dt_struct, dt_strings, fdt,
                   hdr_reads, rsv_reads, regions, str_off, str_ret, str_reads>>

\* let (dt_struct, hdr) = Fdt::_parse_dt_struct(fdt_addr, hdr);
ParseDtStruct ==
    /\ pc = "parse_dt_struct"
    /\ dt_struct' = <<[off |-> Val(hdr[1].off_dt_struct),
                       len |-> Val(hdr[1].size_dt_struct)]>>
    /\ pc' = "parse_dt_strings"
    /\ UNCHANGED <<mem, big_endian, overflow_checks, fdt_addr, result, hdr,
                   mem_reserve, scan_len, dt_strings, fdt, hdr_reads,
                   rsv_reads, regions, str_off, str_ret, str_reads>>

\* let (dt_strings, hdr) = Fdt::_parse_dt_strings(fdt_addr, hdr);
ParseDtStrings ==
    /\ pc = "parse_dt_strings"
    /\ dt_strings' = <<[off |-> Val(hdr[1].off_dt_strings),
                        len |-> Val(hdr[1].size_dt_strings)]>>
    /\ pc' = "build"
    /\ UNCHANGED <<mem, big_endian, overflow_checks, fdt_addr, result, hdr,
                   mem_reserve, scan_len, dt_struct, fdt, hdr_reads,
                   rsv_reads, regions, str_off, str_ret, str_reads>>

\* let fdt = Fdt { ... }; return Ok(fdt);
NewReturnOk ==
    /\ pc = "build"
    /\ fdt' = <<[header |-> hdr[1], reserved_memory |-> mem_reserve[1],
                 dt_struct |-> dt_struct[1], dt_strings |-> dt_strings[1]]>>
    /\ result' = "Ok"
    /\ pc' = "returned"
    /\ UNCHANGED <<mem, big_endian, overflow_checks, fdt_addr, hdr,
                   mem_reserve, scan_len, dt_struct, dt_strings, hdr_reads,
                   rsv_reads, regions, str_off, str_ret, str_reads>>

\* -------------------------------------------------- the handle's methods
\* A caller drains get_reserved_memory_regions().
GetReservedMemoryRegions ==
    /\ pc = "returned"
    /\ result = "Ok"
    /\ regions' = <<Regions(mem, fdt[1])>>
    /\ UNCHANGED <<mem, big_endian, overflow_checks, fdt_addr, pc, result,
                   hdr, mem_reserve, scan_len, dt_struct, dt_strings, fdt,
                   hdr_reads, rsv_reads, str_off, str_ret, str_reads>>

\* A caller calls get_string(offset), with offsets up to one past the
\* declared size of the strings region.
GetString ==
    /\ pc = "returned"
    /\ result = "Ok"
    /\ \E offset \in 0..(Val(fdt[1].header.size_dt_strings) + 1) :
         LET r == GetStringResult(mem, fdt[1], offset)
         IN  /\ str_off' = offset
             /\ str_ret' = <<[kind |-> r.kind, bytes |-> r.bytes]>>
             /\ str_reads' = r.reads
             /\ pc' = IF r.kind = "panic" THEN "aborted" ELSE pc
    /\ UNCHANGED <<mem, big_endian, overflow_checks, fdt_addr, result, hdr,
                   mem_reserve, scan_len, dt_struct, dt_strings, fdt,
                   hdr_reads, rsv_reads, regions>>

Next ==
    \/ NewNullCheck
    \/ NewParseHeader
    \/ MemReserveSlice
    \/ ScanEntry
    \/ ScanUnmapped
    \/ ScanEnd
    \/ ParseDtStruct
    \/ ParseDtStrings
    \/ NewReturnOk
    \/ GetReservedMemoryRegions
    \/ GetString

Spec == Init /\ [][Next]_vars

\* ---------------------------------------------------------- properties
\* What the blob says on the wire, read big-endian straight from mem.
WireMagicOk == BytesAt(mem, 0, 4) = <<208, 13, 254, 237>>
WireOffStruct == Val(BytesAt(mem, 8, 4))
WireOffStrings == Val(BytesAt(mem, 12, 4))
WireOffRsvmap == Val(BytesAt(mem, 16, 4))
WireSizeStrings == Val(BytesAt(mem, 32, 4))

\* The bound of the scan: floor((off_dt_struct - off_mem_rsvmap) / 16).
WireBound == (WireOffStruct - WireOffRsvmap) \div 16

\* The 8 address bytes and the 8 size bytes of table entry i.
WireAddress(i) == BytesAt(mem, WireOffRsvmap + 16 * i, 8)
WireSize(i) == BytesAt(mem, WireOffRsvmap + 16 * i + 8, 8)
WireEntryIsZero(i) == IsZero(WireAddress(i)) /\ IsZero(WireSize(i))

\* Byte i of the strings region, and the end of the region in the blob.
WireStr(i) == ByteAt(mem, WireOffStrings + i)
WireStrEnd == WireOffStrings + WireSizeStrings

\* A get_string call has been made on a handle.
StringCalled == result = "Ok" /\ Len(str_ret) = 1

\* get_reserved_memory_regions has been drained on a handle.
RegionsCalled == result = "Ok" /\ Len(regions) = 1

\* C1: with the null address Fdt::new returns Err(InvalidPointer) whatever
\* memory holds, and takes no step that reads memory: no header read, no
\* reservation scan, no slice.
C1_NullIsInvalidPointer ==
    fdt_addr = NULL =>
        /\ pc \in {"new", "returned"}
        /\ pc = "returned" => result = "InvalidPointer"
        /\ hdr_reads = {} /\ rsv_reads = {}
        /\ Len(hdr) = 0 /\ Len(mem_reserve) = 0 /\ Len(dt_struct) = 0
        /\ Len(dt_strings) = 0 /\ Len(fdt) = 0

\* C1's case: the null address with a well-formed blob in memory.
C1_Witness ==
    fdt_addr = NULL /\ pc = "returned" /\ WireMagicOk
    /\ result = "InvalidPointer"

\* C2: for a non-null address the header is accepted exactly when the
\* first four bytes, read big-endian, are 0xd00dfeed; any other magic ends
\* Fdt::new with Err(InvalidMagic) and no handle, whatever the other nine
\* fields hold.
C2_MagicDecides ==
    (fdt_addr # NULL /\ pc \notin {"new", "parse_header"}) =>
        IF WireMagicOk
        THEN Len(hdr) = 1
             /\ result \notin {"InvalidMagic", "NotFound", "InvalidPointer"}
        ELSE result = "InvalidMagic" /\ pc = "returned" /\ Len(hdr) = 0
             /\ Len(fdt) = 0

\* C2's case: the byte-swapped magic on a little-endian host is rejected.
C2_Witness ==
    /\ fdt_addr # NULL /\ ~big_endian /\ result = "InvalidMagic"
    /\ BytesAt(mem, 0, 4) = <<237, 254, 13, 208>>
    /\ BytesAt(mem, 4, 4) = <<129, 2, 3, 4>>

\* C3: when off_mem_rsvmap <= off_dt_struct and the first all-zero entry of
\* the table is at index k below the bound, the handle yields exactly the
\* k entries before it, big-endian, none of them (0, 0), and nothing after.
C3_SentinelEndsTable ==
    (RegionsCalled /\ WireOffRsvmap <= WireOffStruct) =>
        \A k \in 0..(WireBound - 1) :
            (WireEntryIsZero(k) /\ \A j \in 0..(k - 1) : ~WireEntryIsZero(j))
            => /\ Len(regions[1]) = k
               /\ \A i \in 1..k :
                    /\ regions[1][i] = <<WireAddress(i - 1), WireSize(i - 1)>>
                    /\ regions[1][i] # <<Zero8, Zero8>>

\* C3's case: a sentinel at index 1 with a half-zero entry before it and a
\* non-zero entry after it inside the bound.
C3_Witness ==
    /\ RegionsCalled /\ WireOffRsvmap <= WireOffStruct /\ WireBound >= 3
    /\ IsZero(WireAddress(0)) /\ ~IsZero(WireSize(0))
    /\ WireEntryIsZero(1) /\ ~WireEntryIsZero(2)
    /\ Len(regions[1]) = 1

\* The first zero byte of the strings region at or after position o, when
\* there is one before the region's end.
HasNulFrom(o) == \E p \in o..(WireSizeStrings - 1) : WireStr(p) = 0
FirstNulFrom(o) ==
    CHOOSE p \in o..(WireSizeStrings - 1) :
        WireStr(p) = 0 /\ \A q \in o..(p - 1) : WireStr(q) # 0

\* The bytes of the strings region from o up to the next zero byte.
WireString(o) == BytesAt(mem, WireOffStrings + o, FirstNulFrom(o) - o)

C5_OutOfRangeIsNone ==
    (StringCalled /\ str_off >= WireSizeStrings) =>
        /\ str_ret[1].kind = "None"
        /\ pc = "returned"
        /\ \A r \in str_reads : r < WireStrEnd

\* C5's case: the offset equals the declared size, and the byte of memory
\* right after the region is a zero byte.
C5_Witness ==
    /\ StringCalled /\ str_off = WireSizeStrings /\ WireSizeStrings > 0
    /\ WireStrEnd < Len(mem) /\ ByteAt(mem, WireStrEnd) = 0
    /\ str_ret[1].kind = "None"

\* C6 as stated: Fdt::new always returns, either Ok with a complete handle
\* or one of InvalidPointer, InvalidMagic, NotFound with no handle; it never
\* aborts.
C6_NewAlwaysReturns ==
    /\ result \in {"none", "Ok", "InvalidPointer", "InvalidMagic", "NotFound"}
    /\ result = "Ok" <=> Len(fdt) = 1
    /\ result = "Ok" =>
          /\ Len(hdr) = 1 /\ Len(mem_reserve) = 1 /\ Len(dt_struct) = 1
          /\ Len(dt_strings) = 1

\* The bytes a word is stored as by the host.
NativeStore(w) == IF big_endian THEN w ELSE Reverse(w)

\* C7: every one of the ten header fields of the handle is the big-endian
\* reading of its four on-wire bytes, so that storing each field's to_be()
\* gives back the 40 header bytes; the stored magic is 0xd00dfeed.
C7_HeaderRoundTrip ==
    result = "Ok" =>
        /\ \A f \in FieldNames :
             /\ fdt[1].header[f] = BytesAt(mem, FieldOffset[f], 4)
             /\ NativeStore(ToBe(fdt[1].header[f]))
                  = BytesAt(mem, FieldOffset[f], 4)
        /\ fdt[1].header.magic = <<208, 13, 254, 237>>

\* C7's case: a handle built on a little-endian host from a header whose
\* copied fields are not palindromes.
C7_Witness ==
    /\ result = "Ok" /\ ~big_endian
    /\ \A f \in {"totalsize", "version", "last_comp_version",
                 "boot_cpuid_phys"} :
         BytesAt(mem, FieldOffset[f], 4) = <<129, 2, 3, 4>>

\* The end-to-end scenario is running on its blob.
E2E == mem \in E2EBlobs /\ fdt_addr # NULL

\* What the scenario expects of Fdt::new, the regions, get_string(0) and
\* get_string(4).
E2ECommon ==
    /\ pc \in {"returned", "aborted"} => result = "Ok"
    /\ RegionsCalled =>
          regions[1] = << <<<<0, 0, 0, 0, 0, 0, 1, 0>>, <<0, 0, 0, 0, 0, 0, 6, 0>>>>,
                          <<<<0, 0, 0, 0, 0, 0, 2, 0>>, <<0, 0, 0, 0, 0, 0, 7, 0>>>>,
                          <<<<0, 0, 0, 0, 0, 0, 3, 0>>, <<0, 0, 0, 0, 0, 0, 8, 0>>>>,
                          <<<<0, 0, 0, 0, 0, 0, 4, 0>>, <<0, 0, 0, 0, 0, 0, 9, 0>>>> >>
    /\ (StringCalled /\ str_off = 0) =>
          str_ret[1] = [kind |-> "Some", bytes |-> <<102, 111, 111>>]
    /\ (StringCalled /\ str_off = 4) =>
          str_ret[1] = [kind |-> "Some", bytes |-> <<98, 97, 114>>]

\* C8 as stated: on the end-to-end blob Fdt::new succeeds, four regions are
\* yielded, get_string(0) is "foo", get_string(4) is "bar" and get_string(9)
\* is not found.
C8_Original ==
    E2E => /\ E2ECommon
           /\ (StringCalled /\ str_off = 9) => str_ret[1].kind = "None"

\* C8 amended: on the end-to-end blob Fdt::new succeeds, four regions are
\* yielded, get_string(0) is "foo", get_string(4) is "bar"; get_string(9)
\* is inside the 10-byte region, so it is the empty string when the last
\* byte of the block is zero and a panic when it is not; not found is what
\* get_string(10) returns.
C8_EndToEnd ==
    E2E => /\ E2ECommon
           /\ (StringCalled /\ str_off = 9) =>
                 IF ByteAt(mem, 137) = 0
                 THEN str_ret[1] = [kind |-> "Some", bytes |-> <<>>]
                 ELSE str_ret[1].kind = "panic"
           /\ (StringCalled /\ str_off = 10) => str_ret[1].kind = "None"

\* C8's case: the regions were read and get_string(9) was called on the
\* blob whose strings block ends in zero bytes.
C8_Witness ==
    /\ E2E /\ RegionsCalled /\ Len(regions[1]) = 4
    /\ StringCalled /\ str_off = 9 /\ ByteAt(mem, 137) = 0
    /\ str_ret[1].kind = "Some"

\* No entry below the bound is all-zero.
NoSentinelInBound == \A i \in 0..(WireBound - 1) : ~WireEntryIsZero(i)

\* C9: when off_mem_rsvmap <= off_dt_struct and no entry below the bound N
\* is all-zero, Fdt::new raises no error, the handle yields exactly the N
\* entries in table order, the scan takes at most N steps and reads no
\* byte at or beyond off_dt_struct.
C9_NoSentinelFullRange ==
    (fdt_addr # NULL /\ WireMagicOk /\ WireOffRsvmap <= WireOffStruct
     /\ NoSentinelInBound) =>
        /\ result \in {"none", "Ok"}
        /\ pc \in {"returned", "aborted"} => result = "Ok"
        /\ scan_len <= WireBound
        /\ \A r \in rsv_reads : r < WireOffStruct
        /\ RegionsCalled =>
              /\ Len(regions[1]) = WireBound
              /\ \A i \in 1..WireBound :
                   regions[1][i] = <<WireAddress(i - 1), WireSize(i - 1)>>

\* C9's case: two entries below a bound that the division rounds down, the
\* entry right after the bound being all-zero.
C9_Witness ==
    /\ RegionsCalled /\ WireOffRsvmap <= WireOffStruct /\ NoSentinelInBound
    /\ WireBound = 2 /\ (WireOffStruct - WireOffRsvmap) % 16 = 8
    /\ WireEntryIsZero(2)
    /\ Len(regions[1]) = 2

\* C10: for o < size_dt_strings with no zero byte from o to the end of the
\* strings region, get_string(o) panics: it returns neither a string nor
\* None, and it reads no byte at or beyond the region's end.
C10_MissingTerminatorAborts ==
    (StringCalled /\ str_off < WireSizeStrings /\ ~HasNulFrom(str_off)) =>
        /\ str_ret[1].kind = "panic"
        /\ pc = "aborted"
        /\ \A r \in str_reads : r < WireStrEnd

\* C10's case: no terminator inside the region, a zero byte right after it.
C10_Witness ==
    /\ StringCalled /\ str_off < WireSizeStrings /\ ~HasNulFrom(str_off)
    /\ WireStrEnd < Len(mem) /\ ByteAt(mem, WireStrEnd) = 0
    /\ str_ret[1].kind = "panic"

====
